---- MODULE Spec2Model ----
(***************************************************************************)
(* Transfer engine of rclone-hub: the durable job store, the in-memory     *)
(* job table, the FIFO queue, the single worker coroutine and the request  *)
(* handler threads (submit, cancel) that FastAPI runs on its thread pool.  *)
(*                                                                         *)
(* The worker coroutine is modelled one step per stretch of code between   *)
(* two suspension points (await), split further where a handler thread's   *)
(* writes to the shared Job object can interleave.  cancel() runs on a     *)
(* pool thread and is modelled statement by statement.  A process crash    *)
(* followed by a new process (Restart) is the only way the store can hold  *)
(* a running job at boot.                                                  *)
(*                                                                         *)
(* The scan managers (search, size) are modelled beside the engine: their  *)
(* sessions table, the scan task of each session, the janitor and stop().  *)
(***************************************************************************)
EXTENDS Integers, Sequences, FiniteSets, TLC

\* ---------------------------------------------------------------- bounds
MaxJobs == 1        \* jobs ever submitted under Spec
MaxQueued == 2      \* jobs ever submitted under SpecQueue
MaxSources == 2     \* sources over all jobs submitted
MaxTime == 2        \* clock values 1..MaxTime under SpecClock
MaxSessions == 1    \* scan sessions ever created under SpecScan
MaxEvents == 3      \* events a scan session may hold
MaxMono == 1        \* time.monotonic() values 0..MaxMono
MaxPaths == 2       \* paths of the remote under SpecDriver
MaxTree == 4        \* events of the scan sessions under SpecTree
MaxEntries == 1     \* objects one lsjson run lists under SpecVerify
MaxRetries == 2     \* max_retries is 0..MaxRetries under SpecRun

\* ------------------------------------------------------- program values
Null == 0                               \* a None timestamp
StagingCap == 2                         \* settings.staging_cap_bytes as configured
\* values _estimate_source_size returns: below zero, zero, the cap, above it
Estimates == {-1, 0, StagingCap, StagingCap + 1}
Operations == {"copy", "move", "delete"}
Terminal == {"success", "failed", "cancelled", "interrupted"}
Outcomes == {"ok", "fail", "raise"}     \* a driver stage: rc = 0, rc # 0, exception
ScanKinds == {"search", "size"}         \* SearchManager, SizeManager
\* what the task finds when it wakes: the listing still running, returned,
\* or failed with RcloneError or another Exception, whose text may contain
\* "Cancelled by user"
Failures == {"rclone_error", "rclone_cancelled", "exception", "exception_cancelled"}
Listings == {"pending", "items"} \cup Failures
Sizes == {-1, 1}                        \* Size of a listed entry, -1: unknown
\* mono counts periods longer than either timeout of the janitor: what is
\* one period old is older than unpolled_timeout_seconds and than
\* terminal_retention_seconds, what is of this period is not
UnpolledTimeout == 0
TerminalRetention == 0

VARIABLES
  db,           \* store: job id -> persisted Job (jobs table, payload column)
  jobs,         \* TransferManager.jobs: job id -> Job object
  queue,        \* TransferManager.queue
  cancelled,    \* TransferManager.cancelled
  worker,       \* TransferManager.worker_task is not None
  staging,      \* TransferManager.staging_in_use_bytes
  now,          \* value _now() returns
  nextId,       \* next fresh job id (uuid4)
  canPc,        \* position of the cancel() handler thread
  canJob,       \* its job_id argument
  canSnap,      \* the payload its upsert_job is about to write
  wpc,          \* position of the worker coroutine
  cur,          \* job the worker holds (0: none)
  idx,          \* index of the current source in job.sources
  anyFail,      \* failures / any_failures local
  fbUsed,       \* item.fallback_used of the current item
  est,          \* estimate local of _fallback_copy
  hist,         \* driver history: <<job, source index, event>>
  sweeps,       \* recovery sweeps run by this process
  bootRunning,  \* jobs a recovery sweep found running
  scanKind,     \* which scan manager this is: SearchManager or SizeManager
  sessions,     \* the manager's sessions table: ids it holds
  sess,         \* every session object created: id -> session
  nextSid,      \* next fresh session id (uuid4)
  mono,         \* value time.monotonic() returns
  cleanup,      \* cleanup_task is not None
  reply,        \* the latest answer of poll(): what a client received
  cursor,       \* polling client: the next_seq of its previous answer, by id
  got,          \* polling client: the events it received so far, by id
  seen,         \* polling client: it has had an answer with done = true
  remote,       \* the remote's objects: path -> file, dir or absent
  issued,       \* the calls of run() the latest driver call made, in order
  outcome,      \* what the latest driver call found and how it ended
  vcall,        \* the arguments and the listings of the latest verify_strict
  verdict,      \* how the latest verify_strict ended
  rpc,          \* position of the latest call of run()
  rmax,         \* its max_retries
  rtried,       \* the results of its attempts, in order
  rresult,      \* what it returned
  spc,          \* position of the latest call of run_with_progress()
  proc,         \* its child process: running or exited, and the exit code
  spred,        \* its should_cancel is not None
  stop,         \* what the caller's predicate answers now
  late,         \* time.monotonic() is past its deadline
  sobs,         \* its cancelled and timed_out locals
  sresult       \* what it returned

engineVars == <<db, jobs, queue, cancelled, worker, staging, now, nextId,
                canPc, canJob, canSnap, wpc, cur, idx, anyFail, fbUsed, est,
                hist, sweeps, bootRunning>>

scanVars == <<scanKind, sessions, sess, nextSid, mono, cleanup>>

clientVars == <<reply, cursor, got, seen>>
driverVars == <<remote, issued, outcome>>
verifyVars == <<vcall, verdict>>
runVars == <<rpc, rmax, rtried, rresult>>
streamVars == <<spc, spred, proc, stop, late, sobs, sresult>>
callVars == <<verifyVars, runVars, streamVars>>
outerVars == <<clientVars, driverVars, callVars>>
vars == <<engineVars, scanVars, outerVars>>

handlerVars == <<canPc, canJob, canSnap>>
workerVars == <<wpc, cur, idx, anyFail, fbUsed, est>>
ghostVars == <<hist, sweeps, bootRunning>>

\* ------------------------------------------------------------- records
\* no payload
NoJob == [status |-> "none"]

NewJob(op, n, t) ==
  [operation |-> op, status |-> "queued", created_at |-> t,
   started_at |-> Null, completed_at |-> Null, nsrc |-> n,
   results |-> <<>>, crashLog |-> FALSE]

TransferItem(i, st, fb, vp, err) ==
  [source |-> i, status |-> st, direct_attempted |-> TRUE,
   fallback_used |-> fb, verify_passed |-> vp, error |-> err]

DeleteItem(i, st, err) ==
  [source |-> i, status |-> st, direct_attempted |-> FALSE,
   fallback_used |-> FALSE, verify_passed |-> FALSE, error |-> err]

\* ---------------------------------------------------------------- store
UpsertJob(store, j, job) ==
  IF j \in DOMAIN store THEN [store EXCEPT ![j] = job] ELSE store @@ (j :> job)

\* a sweep that also rewrites queued jobs
MarkRunningJobsInterrupted_AlsoQueued(store) ==
  [j \in DOMAIN store |->
     IF store[j].status \in {"running", "queued"}
       THEN [store[j] EXCEPT !.status = "interrupted"]
       ELSE store[j]]

MarkRunningJobsInterrupted(store) ==
  [j \in DOMAIN store |->
     IF store[j].status = "running"
       THEN [store[j] EXCEPT !.status = "interrupted"]
       ELSE store[j]]

\* TransferManager.__init__ over an empty store
EngineInit ==
  /\ db = <<>>
  /\ jobs = <<>>
  /\ queue = <<>>
  /\ cancelled = {}
  /\ worker = FALSE
  /\ staging = 0
  /\ now = 1
  /\ nextId = 1
  /\ canPc = "idle"
  /\ canJob = 0
  /\ canSnap = NoJob
  /\ wpc = "idle"
  /\ cur = 0
  /\ idx = 0
  /\ anyFail = FALSE
  /\ fbUsed = FALSE
  /\ est = 0
  /\ hist = {}
  /\ sweeps = 0
  /\ bootRunning = {}

\* ----------------------------------------------------------------- clock
\* time passes between two reads of _now()
Tick ==
  /\ now < MaxTime
  /\ now' = now + 1
  /\ UNCHANGED <<db, jobs, queue, cancelled, worker, staging, nextId,
                 handlerVars, workerVars, ghostVars>>
  /\ UNCHANGED <<scanVars, outerVars>>

\* ------------------------------------------------- engine start, restart
\* a start() without its guard
WorkerTaskIsNone_Always == TRUE

\* start(), line 43: the guard on worker_task
WorkerTaskIsNone == ~worker

\* start(), lines 44-47: recovery sweep, reload of the table, worker spawn
SweepAndSpawn ==
  /\ db' = MarkRunningJobsInterrupted(db)
  /\ jobs' = MarkRunningJobsInterrupted(db)
  /\ worker' = TRUE
  /\ sweeps' = sweeps + 1
  /\ bootRunning' = bootRunning \cup {j \in DOMAIN db : db[j].status = "running"}

\* start() is called from the lifespan hook (or a test) while no cancel()
\* handler is executing.
Start ==
  /\ canPc = "idle"
  /\ IF WorkerTaskIsNone
       THEN SweepAndSpawn
       ELSE UNCHANGED <<db, jobs, worker, sweeps, bootRunning>>
  /\ UNCHANGED <<queue, cancelled, staging, now, nextId, handlerVars,
                 workerVars, hist>>
  /\ UNCHANGED <<scanVars, outerVars>>

\* The process dies and a new one constructs Database and TransferManager:
\* only the store survives; __init__ loads the table from it.
Restart ==
  /\ jobs' = db
  /\ queue' = <<>>
  /\ cancelled' = {}
  /\ worker' = FALSE
  /\ staging' = 0
  /\ canPc' = "idle"
  /\ canJob' = 0
  /\ canSnap' = NoJob
  /\ wpc' = "idle"
  /\ cur' = 0
  /\ idx' = 0
  /\ anyFail' = FALSE
  /\ fbUsed' = FALSE
  /\ est' = 0
  /\ sweeps' = 0
  /\ UNCHANGED <<db, now, nextId, hist, bootRunning>>
  /\ UNCHANGED <<scanVars, outerVars>>

\* ------------------------------------------------------------ submission
RECURSIVE SourcesUpTo(_)
SourcesUpTo(k) == IF k = 0 THEN 0 ELSE jobs[k].nsrc + SourcesUpTo(k - 1)

\* _new_job, then the handler's upsert and queue.put_nowait.  Nothing can
\* reach the Job before _new_job stores it, and a cancel() or a crash that
\* falls between _new_job and put_nowait leaves the same table, store and
\* queue as one that falls right after put_nowait, so the call is one step.
CreateAndEnqueue(op, n) ==
  /\ jobs' = UpsertJob(jobs, nextId, NewJob(op, n, now))
  /\ db' = UpsertJob(db, nextId, NewJob(op, n, now))
  /\ queue' = Append(queue, nextId)
  /\ nextId' = nextId + 1
  /\ UNCHANGED <<cancelled, worker, staging, now, handlerVars,
                 workerVars, ghostVars>>
  /\ UNCHANGED <<scanVars, outerVars>>

\* submit_transfer
SubmitTransfer(op, n) ==
  /\ op \in {"copy", "move"}
  /\ CreateAndEnqueue(op, n)

\* submit_delete
SubmitDelete(n) == CreateAndEnqueue("delete", n)

\* ---------------------------------------------------------------- cancel
\* cancel, lines 83-86 (an unknown id returns None and changes nothing)
CancelBegin(j) ==
  /\ canPc = "idle"
  /\ j \in DOMAIN jobs
  /\ cancelled' = cancelled \cup {j}
  /\ canJob' = j
  /\ canPc' = "check"
  /\ UNCHANGED canSnap
  /\ UNCHANGED <<db, jobs, queue, worker, staging, now, nextId, 
                 workerVars, ghostVars>>
  /\ UNCHANGED <<scanVars, outerVars>>

\* cancel, line 87
CancelCheck ==
  /\ canPc = "check"
  /\ IF jobs[canJob].status = "queued"
       THEN canPc' = "set_status" /\ UNCHANGED canJob
       ELSE canPc' = "idle" /\ canJob' = 0
  /\ UNCHANGED canSnap
  /\ UNCHANGED <<db, jobs, queue, cancelled, worker, staging, now, nextId,
                 workerVars, ghostVars>>
  /\ UNCHANGED <<scanVars, outerVars>>

\* cancel, line 88
CancelSetStatus ==
  /\ canPc = "set_status"
  /\ jobs' = [jobs EXCEPT ![canJob].status = "cancelled"]
  /\ canPc' = "set_completed"
  /\ UNCHANGED <<db, queue, cancelled, worker, staging, now, nextId, 
                 canJob, canSnap, workerVars, ghostVars>>
  /\ UNCHANGED <<scanVars, outerVars>>

\* cancel, line 89
CancelSetCompleted ==
  /\ canPc = "set_completed"
  /\ jobs' = [jobs EXCEPT ![canJob].completed_at = now]
  /\ canPc' = "persist"
  /\ UNCHANGED <<db, queue, cancelled, worker, staging, now, nextId, 
                 canJob, canSnap, workerVars, ghostVars>>
  /\ UNCHANGED <<scanVars, outerVars>>

\* cancel, line 90: upsert_job evaluates its arguments, the status and the
\* JSON payload of the job as it is now (database.py:78)
CancelSnapshot ==
  /\ canPc = "persist"
  /\ canSnap' = jobs[canJob]
  /\ canPc' = "write"
  /\ UNCHANGED <<db, jobs, queue, cancelled, worker, staging, now, nextId,
                 canJob, workerVars, ghostVars>>
  /\ UNCHANGED <<scanVars, outerVars>>

\* cancel, lines 90-91: the statement of upsert_job runs on the handler's
\* own connection, when the store lets it, and cancel returns
CancelPersist ==
  /\ canPc = "write"
  /\ db' = UpsertJob(db, canJob, canSnap)
  /\ canPc' = "idle"
  /\ canJob' = 0
  /\ canSnap' = NoJob
  /\ UNCHANGED <<jobs, queue, cancelled, worker, staging, now, nextId, 
                 workerVars, ghostVars>>
  /\ UNCHANGED <<scanVars, outerVars>>

\* ---------------------------------------------------------------- worker
engineFrame == <<cancelled, worker, now, nextId, handlerVars, sweeps,
                 bootRunning, scanVars, outerVars>>

Max(a, b) == IF a >= b THEN a ELSE b

\* the coroutine is back at `await self.queue.get()`
ReturnToIdle ==
  /\ wpc' = "idle"
  /\ cur' = 0
  /\ idx' = 0
  /\ anyFail' = FALSE
  /\ fbUsed' = FALSE
  /\ est' = 0

\* the in-memory Job becomes `job`, the store receives `persisted`
Record(job, persisted) ==
  /\ jobs' = [jobs EXCEPT ![cur] = job]
  /\ db' = UpsertJob(db, cur, persisted)

Note(j, i, ev) == hist' = hist \cup {<<j, i, ev>>}

\* an except branch that leaves the loop instead of going on
CrashHandler_LeavesLoop ==
  /\ LET job == [jobs[cur] EXCEPT !.status = "failed", !.completed_at = now,
                                  !.crashLog = TRUE]
     IN Record(job, job)
  /\ wpc' = "dead"
  /\ UNCHANGED <<cur, idx, anyFail, fbUsed, est>>

\* _worker, lines 114-121: the except branch
CrashHandler ==
  /\ LET job == [jobs[cur] EXCEPT !.status = "failed", !.completed_at = now,
                                  !.crashLog = TRUE]
     IN Record(job, job)
  /\ ReturnToIdle

\* a final status that forgets the failures flag
FinalStatus_IgnoreFailures(status, failures) ==
  IF status # "cancelled" THEN "success" ELSE "cancelled"

\* a final status that reports a cancelled run as interrupted
FinalStatus_CancelAsInterrupted(status, failures) ==
  IF status # "cancelled"
    THEN (IF failures THEN "failed" ELSE "success")
    ELSE "interrupted"

\* _run_delete 150-153 and _run_transfer 208-211
FinalStatus(status, failures) ==
  IF status # "cancelled"
    THEN (IF failures THEN "failed" ELSE "success")
    ELSE "cancelled"

FinishJob(status) ==
  /\ LET job == [jobs[cur] EXCEPT !.status = FinalStatus(status, anyFail),
                                  !.completed_at = now]
     IN Record(job, job)
  /\ ReturnToIdle

\* a queue that hands out its newest entry
QueueGet_Last == queue[Len(queue)]

\* the head of asyncio.Queue
QueueGet == Head(queue)

\* _worker, lines 101-111
WorkerDequeue ==
  /\ worker
  /\ wpc = "idle"
  /\ queue # <<>>
  /\ queue' = Tail(queue)
  /\ IF QueueGet \in cancelled
       THEN /\ LET job == [jobs[QueueGet] EXCEPT !.status = "cancelled",
                                                  !.completed_at = now]
               IN /\ jobs' = [jobs EXCEPT ![QueueGet] = job]
                  /\ db' = UpsertJob(db, QueueGet, job)
            /\ UNCHANGED <<wpc, cur>>
       ELSE /\ wpc' = "start"
            /\ cur' = QueueGet
            /\ UNCHANGED <<db, jobs>>
  /\ UNCHANGED <<staging, idx, anyFail, fbUsed, est, hist, engineFrame>>

\* _run_job, lines 124-126
WorkerSetRunning ==
  /\ wpc = "start"
  /\ jobs' = [jobs EXCEPT ![cur].status = "running", ![cur].started_at = now]
  /\ wpc' = "persist_start"
  /\ UNCHANGED <<db, queue, staging, cur, idx, anyFail, fbUsed, est, hist,
                 engineFrame>>

\* _run_job, lines 127-132
WorkerPersistRunning ==
  /\ wpc = "persist_start"
  /\ db' = UpsertJob(db, cur, jobs[cur])
  /\ wpc' = IF jobs[cur].operation = "delete" THEN "del_loop" ELSE "xfer_loop"
  /\ idx' = 1
  /\ anyFail' = FALSE
  /\ UNCHANGED <<jobs, queue, staging, cur, fbUsed, est, hist,
                 engineFrame>>

\* the item of the current source moves to job.results; the loop continues
AppendResult(item, failed, persistAfter) ==
  /\ LET job == [jobs[cur] EXCEPT !.results = Append(@, item)]
     IN Record(job, IF persistAfter THEN job ELSE jobs[cur])
  /\ idx' = idx + 1
  /\ anyFail' = (anyFail \/ failed)
  /\ fbUsed' = FALSE
  /\ est' = 0

\* ------------------------------------------------------------ delete job
\* a delete whose exit code is not looked at
DeleteFailed_Never(out) == FALSE

\* _run_delete, line 142: result.returncode != 0
DeleteFailed(out) == out # "ok"

\* _run_delete, lines 136-139 and 150-153
WorkerDeleteLoop ==
  /\ wpc = "del_loop"
  /\ IF idx > jobs[cur].nsrc
       THEN FinishJob(jobs[cur].status) /\ UNCHANGED hist
       ELSE IF cur \in cancelled
         THEN FinishJob("cancelled") /\ UNCHANGED hist
         ELSE /\ wpc' = "del_call"
              /\ Note(cur, idx, "delete_call")
              /\ UNCHANGED <<db, jobs, cur, idx, anyFail, fbUsed, est>>
  /\ UNCHANGED <<queue, staging, engineFrame>>

\* _run_delete, lines 140-148
WorkerDeleteReturn(out) ==
  /\ wpc = "del_call"
  /\ Note(cur, idx, IF out = "ok" THEN "delete_ok" ELSE "delete_fail")
  /\ IF out = "raise"
       THEN CrashHandler
       ELSE /\ IF DeleteFailed(out)
                 THEN AppendResult(DeleteItem(idx, "failed", "delete"), TRUE, TRUE)
                 ELSE AppendResult(DeleteItem(idx, "success", "none"), FALSE, TRUE)
            /\ wpc' = "del_loop"
            /\ UNCHANGED cur
  /\ UNCHANGED <<queue, staging, engineFrame>>

\* ---------------------------------------------------------- transfer job
\* _run_transfer, lines 159-168 and 208-211
WorkerTransferLoop ==
  /\ wpc = "xfer_loop"
  /\ IF idx > jobs[cur].nsrc
       THEN FinishJob(jobs[cur].status)
       ELSE IF cur \in cancelled
         THEN FinishJob("cancelled")
         ELSE /\ wpc' = "direct"
              /\ fbUsed' = FALSE
              /\ db' = UpsertJob(db, cur, jobs[cur])
              /\ UNCHANGED <<jobs, cur, idx, anyFail, est>>
  /\ UNCHANGED <<queue, staging, hist, engineFrame>>

\* a direct copy whose exit code is not looked at
DirectFailed_Never(out) == FALSE

\* _run_transfer, line 172: direct.returncode != 0
DirectFailed(out) == out # "ok"

\* _run_transfer, lines 170-173, with _copy_item (stat, then copy or copyto)
WorkerDirectReturn(out) ==
  /\ wpc = "direct"
  /\ Note(cur, idx, CASE out = "ok" -> "copy_ok"
                      [] out = "fail" -> "direct_fail"
                      [] OTHER -> "copy_fail")
  /\ IF out = "raise"
       THEN CrashHandler
       ELSE /\ db' = UpsertJob(db, cur, jobs[cur])
            /\ wpc' = IF DirectFailed(out) THEN "fb_estimate" ELSE "verify"
            /\ UNCHANGED <<jobs, cur, idx, anyFail, fbUsed, est>>
  /\ UNCHANGED <<queue, staging, engineFrame>>

\* _fallback_copy, line 240, with _estimate_source_size
WorkerEstimate(e) ==
  /\ wpc = "fb_estimate"
  /\ est' = e
  /\ wpc' = "fb_admit"
  /\ UNCHANGED <<db, jobs, queue, staging, cur, idx, anyFail, fbUsed, hist,
                 engineFrame>>

\* an admission test that lets every fallback in
Admissible_Always(inUse, estimate, cap) == TRUE

\* _fallback_copy, line 241: the admission test
Admissible(inUse, estimate, cap) == ~(inUse + estimate > cap)

\* _fallback_copy, lines 241-247
WorkerAdmissionWait ==
  /\ wpc = "fb_admit"
  /\ ~Admissible(staging, est, StagingCap)
  /\ db' = UpsertJob(db, cur, jobs[cur])
  /\ UNCHANGED <<jobs, queue, staging, workerVars, hist, engineFrame>>

\* _fallback_copy, lines 249-250
WorkerAdmit ==
  /\ wpc = "fb_admit"
  /\ Admissible(staging, est, StagingCap)
  /\ staging' = staging + est
  /\ wpc' = "fb_copy"
  /\ UNCHANGED <<db, jobs, queue, cur, idx, anyFail, fbUsed, est, hist,
                 engineFrame>>

\* _run_transfer, line 176: not ok (pull or push returned non-zero)
FallbackFailed(out) == out # "ok"

\* _fallback_copy, lines 251-273, and _run_transfer, lines 174-181
WorkerFallbackReturn(out) ==
  /\ wpc = "fb_copy"
  /\ staging' = Max(0, staging - est)
  /\ Note(cur, idx, IF out = "ok" THEN "copy_ok" ELSE "copy_fail")
  /\ IF out = "raise"
       THEN CrashHandler
       ELSE IF FallbackFailed(out)
         THEN /\ AppendResult(TransferItem(idx, "failed", TRUE, FALSE, "fallback"),
                              TRUE, FALSE)
              /\ wpc' = "xfer_loop"
              /\ UNCHANGED cur
         ELSE /\ wpc' = "verify"
              /\ fbUsed' = TRUE
              /\ est' = 0
              /\ db' = UpsertJob(db, cur, jobs[cur])
              /\ UNCHANGED <<jobs, cur, idx, anyFail>>
  /\ UNCHANGED <<queue, engineFrame>>

\* a verification whose result is not looked at
VerifyPassed_Always(out) == TRUE

\* _run_transfer, line 183: verify.passed
VerifyPassed(out) == out = "ok"

\* a transfer that deletes the source of every verified item
DeletesSource_Always(job) == TRUE

\* _run_transfer, line 193: job.operation == JobOperation.move
DeletesSource(job) == job.operation = "move"

\* _run_transfer, lines 182-194, and 204-206 for a copy job
WorkerVerifyReturn(out) ==
  /\ wpc = "verify"
  /\ IF out = "raise"
       THEN CrashHandler /\ Note(cur, idx, "verify_fail")
       ELSE IF ~VerifyPassed(out)
         THEN /\ AppendResult(TransferItem(idx, "failed", fbUsed, FALSE, "verify"),
                              TRUE, TRUE)
              /\ Note(cur, idx, "verify_fail")
              /\ wpc' = "xfer_loop"
              /\ UNCHANGED cur
         ELSE IF DeletesSource(jobs[cur])
           THEN /\ wpc' = "srcdel"
                /\ hist' = hist \cup
                     {<<cur, idx, IF out = "ok" THEN "verify_ok" ELSE "verify_fail">>,
                      <<cur, idx, "delete_call">>}
                /\ UNCHANGED <<db, jobs, cur, idx, anyFail, fbUsed, est>>
           ELSE /\ AppendResult(TransferItem(idx, "success", fbUsed, TRUE, "none"),
                                FALSE, TRUE)
                /\ Note(cur, idx, IF out = "ok" THEN "verify_ok" ELSE "verify_fail")
                /\ wpc' = "xfer_loop"
                /\ UNCHANGED cur
  /\ UNCHANGED <<queue, staging, engineFrame>>

\* a source delete whose exit code is not looked at
SourceDeleteFailed_Never(out) == FALSE

\* _run_transfer, line 196: delete_result.returncode != 0
SourceDeleteFailed(out) == out # "ok"

\* _run_transfer, lines 194-206 for a move job
WorkerSourceDeleteReturn(out) ==
  /\ wpc = "srcdel"
  /\ Note(cur, idx, IF out = "ok" THEN "delete_ok" ELSE "delete_fail")
  /\ IF out = "raise"
       THEN CrashHandler
       ELSE /\ IF SourceDeleteFailed(out)
                 THEN AppendResult(TransferItem(idx, "failed", fbUsed, TRUE, "delete"),
                                   TRUE, TRUE)
                 ELSE AppendResult(TransferItem(idx, "success", fbUsed, TRUE, "none"),
                                   FALSE, TRUE)
            /\ wpc' = "xfer_loop"
            /\ UNCHANGED cur
  /\ UNCHANGED <<queue, staging, engineFrame>>

\* ------------------------------------------------------- scan sessions
\* SearchManager and SizeManager run the same code; scanKind tells which of
\* the two this manager is (only a search emits result events).  Every
\* handler and task of a manager runs on the event loop, the lock is held
\* only over code that does not await, so a step is the code between two
\* suspensions: the heartbeat sleep of the scan task, the janitor's sleep.
NoTime == -1                            \* done_at is None
NoError == "none"                       \* error is None

\* a session as create() builds it, with the root on the frontier of its
\* task; found, listed, entries and volume record what the listings of the
\* remote returned, for comparison with what the session reports
NewSession(t) ==
  [seq |-> 0, events |-> <<>>, done |-> FALSE, done_at |-> NoTime,
   last_polled_at |-> t, cancel_requested |-> FALSE,
   scanned_dirs |-> 0, count |-> 0, bytes |-> 0,
   frontier |-> <<1>>, found |-> 1, listed |-> <<>>, entries |-> 0,
   volume |-> 0, pc |-> "new"]

\* an event; count is matched_count (search) or files_count (size), bytes
\* is bytes_total (size)
Event(s, type, status, error) ==
  [seq |-> s.seq, type |-> type, status |-> status, error |-> error,
   scanned_dirs |-> s.scanned_dirs, count |-> s.count, bytes |-> s.bytes]

\* the early return of the three emitters
EmitRefused(id, s) == id \notin sessions \/ s.done

\* an emitter that appends without counting
AppendEvent_NoCount(s, type, status, error) ==
  [s EXCEPT !.events = Append(@, Event(s, type, status, error))]

\* seq += 1, then the append of an event carrying the new seq
AppendEvent(s, type, status, error) ==
  LET t == [s EXCEPT !.seq = @ + 1]
  IN [t EXCEPT !.events = Append(@, Event(t, type, status, error))]

\* _emit_progress
EmitProgress(id, s) ==
  IF EmitRefused(id, s) THEN s ELSE AppendEvent(s, "progress", "none", NoError)

\* _emit_result (SearchManager only)
EmitResult(id, s) ==
  IF EmitRefused(id, s)
    THEN s
    ELSE AppendEvent([s EXCEPT !.count = @ + 1], "result", "none", NoError)

\* a done emitter that forgets done_at
MarkDone_NoDoneAt(s) == [s EXCEPT !.done = TRUE]

\* _emit_done: the flag and done_at
MarkDone(s) == [s EXCEPT !.done = TRUE, !.done_at = mono]

\* _emit_done
EmitDone(id, s, status, error) ==
  IF EmitRefused(id, s) THEN s ELSE AppendEvent(MarkDone(s), "done", status, error)

\* the scan task returns
Finished(s) == [s EXCEPT !.pc = "finished"]

\* a frontier that hands out its newest directory
FrontierTake_Newest(f) == [dir |-> f[Len(f)], rest |-> SubSeq(f, 1, Len(f) - 1)]

\* dirs.popleft()
FrontierTake(f) == [dir |-> Head(f), rest |-> Tail(f)]

\* _run_search / _run_size from the head of `while dirs` to the heartbeat
\* sleep of the next listing, or to the return
FromLoopHead(id, s) ==
  IF s.frontier = <<>>
    THEN Finished(EmitDone(id, s, "success", NoError))
    ELSE IF s.cancel_requested
      THEN Finished(EmitDone(id, s, "cancelled", NoError))
      ELSE [EmitProgress(id, [s EXCEPT !.frontier = FrontierTake(@).rest,
                                       !.listed = Append(@, FrontierTake(s.frontier).dir),
                                       !.scanned_dirs = @ + 1])
              EXCEPT !.pc = "sleeping"]

\* an error handler that reports every failed listing as failed
ErrorStatus_AlwaysFailed(s, listing) == "failed"

\* the except clauses of the listing: a cancel in disguise, or a failure
ErrorStatus(s, listing) ==
  IF s.cancel_requested \/ listing = "rclone_cancelled"
    THEN "cancelled"
    ELSE "failed"

\* the error text of the done event
ErrorText(s, listing) ==
  IF ErrorStatus(s, listing) = "cancelled" THEN NoError
  ELSE CASE listing = "rclone_error" -> "exc"
         [] listing = "exception" -> "scan failed: exc"
         [] OTHER -> "scan failed: Cancelled by user"

\* max(entry.size, 0)
ClampSize(z) == IF z >= 0 THEN z ELSE 0

\* the `for entry in items` loop over a listing that returned d
\* sub-directories and m entries to count (a match of a search, a file of a
\* size scan) of size z
CountItems(id, s, d, m, z) ==
  LET grown == [s EXCEPT
                  !.frontier = @ \o [k \in 1..d |-> s.found + k],
                  !.found = @ + d,
                  !.entries = @ + m,
                  !.volume = @ + (IF scanKind = "size" /\ m = 1 /\ z > 0 THEN z ELSE 0)]
  IN IF m = 0 THEN grown
     ELSE IF scanKind = "search" THEN EmitResult(id, grown)
     ELSE [grown EXCEPT !.count = @ + 1, !.bytes = @ + ClampSize(z)]

\* the task wakes from the heartbeat sleep and finds the listing pending,
\* failed (a driver error, a driver error saying "Cancelled by user", any
\* other exception), or returned with items
AfterSleep(id, s, listing, nonempty, d, m, z) ==
  CASE listing = "pending" ->
         IF s.cancel_requested
           THEN Finished(EmitDone(id, EmitProgress(id, s), "cancelled", NoError))
           ELSE EmitProgress(id, s)
    [] listing \in Failures ->
         Finished(EmitDone(id, s, ErrorStatus(s, listing), ErrorText(s, listing)))
    [] OTHER ->
         IF nonempty /\ s.cancel_requested
           THEN Finished(EmitDone(id, s, "cancelled", NoError))
           ELSE FromLoopHead(id, CountItems(id, s, d, m, z))

\* the events of a session that count toward the model's cap; the done
\* event of a task that returned always fits
Load(s) == IF s.pc = "finished" /\ s.seq > 0 THEN s.seq - 1 ELSE s.seq

RECURSIVE TotalLoad(_, _)
TotalLoad(f, n) == IF n = 0 THEN 0 ELSE Load(f[n]) + TotalLoad(f, n - 1)

\* the model's cap on the events of all sessions together
WithinEvents(f, cap) == TotalLoad(f, Len(f)) < cap

\* start()
ScanStart ==
  /\ cleanup' = TRUE
  /\ UNCHANGED <<engineVars, outerVars, scanKind, sessions, sess, nextSid, mono>>

\* create()
ScanCreate ==
  /\ nextSid <= MaxSessions
  /\ sessions' = sessions \cup {nextSid}
  /\ sess' = sess @@ (nextSid :> NewSession(mono))
  /\ nextSid' = nextSid + 1
  /\ UNCHANGED <<engineVars, outerVars, scanKind, mono, cleanup>>

\* the scan task runs for the first time
TaskBegin(id, cap) ==
  /\ id \in DOMAIN sess
  /\ sess[id].pc = "new"
  /\ WithinEvents([sess EXCEPT ![id] = FromLoopHead(id, sess[id])], cap)
  /\ sess' = [sess EXCEPT ![id] = FromLoopHead(id, sess[id])]
  /\ UNCHANGED <<engineVars, outerVars, scanKind, sessions, nextSid, mono, cleanup>>

\* the scan task wakes from its heartbeat sleep (every listed directory
\* costs a progress event, so the cap on events caps the directories too;
\* the size of an entry matters to a size scan only)
TaskWake(id, listing, nonempty, d, m, z, cap) ==
  /\ id \in DOMAIN sess
  /\ sess[id].pc = "sleeping"
  /\ d + m > 0 => nonempty
  /\ listing # "items" => ~nonempty
  /\ scanKind = "search" \/ m = 0 => z = 1
  /\ sess[id].found + d < cap
  /\ WithinEvents([sess EXCEPT ![id] = AfterSleep(id, sess[id], listing, nonempty, d, m, z)], cap)
  /\ sess' = [sess EXCEPT ![id] = AfterSleep(id, sess[id], listing, nonempty, d, m, z)]
  /\ UNCHANGED <<engineVars, outerVars, scanKind, sessions, nextSid, mono, cleanup>>

\* poll() on a session of the table: the effect on the session
ScanPoll(id) ==
  /\ id \in sessions
  /\ sess' = [sess EXCEPT ![id].last_polled_at = mono]
  /\ UNCHANGED <<engineVars, outerVars, scanKind, sessions, nextSid, mono, cleanup>>

\* cancel() on a session of the table
ScanCancel(id) ==
  /\ id \in sessions
  /\ sess' = [sess EXCEPT ![id].cancel_requested = TRUE]
  /\ UNCHANGED <<engineVars, outerVars, scanKind, sessions, nextSid, mono, cleanup>>

\* _cleanup_loop: the janitor asks unpolled sessions to stop
Unpolled(s) == ~s.done /\ mono - s.last_polled_at > UnpolledTimeout

\* a janitor that also forgets the sessions nobody polls
StaleTerminal_OrUnpolled(s) ==
  \/ s.done /\ s.done_at # NoTime /\ mono - s.done_at > TerminalRetention
  \/ mono - s.last_polled_at > UnpolledTimeout

\* a janitor that forgets a session as soon as it is done
StaleTerminal_AnyDone(s) == s.done

\* _cleanup_loop: the janitor forgets sessions that ended long ago
StaleTerminal(s) ==
  s.done /\ s.done_at # NoTime /\ mono - s.done_at > TerminalRetention

\* _cleanup_loop: one pass over the table
Janitor ==
  /\ cleanup
  /\ sess' = [id \in DOMAIN sess |->
                IF id \in sessions /\ Unpolled(sess[id])
                  THEN [sess[id] EXCEPT !.cancel_requested = TRUE]
                  ELSE sess[id]]
  /\ sessions' = {id \in sessions : ~StaleTerminal(sess[id])}
  /\ UNCHANGED <<engineVars, outerVars, scanKind, nextSid, mono, cleanup>>

\* a stop() that leaves the tasks of the sessions running
ScanStop_KeepsTasks ==
  /\ cleanup' = FALSE
  /\ sessions' = {}
  /\ sess' = [id \in DOMAIN sess |->
                IF id \in sessions
                  THEN [sess[id] EXCEPT !.cancel_requested = TRUE]
                  ELSE sess[id]]
  /\ UNCHANGED <<engineVars, outerVars, scanKind, nextSid, mono>>

\* stop(): the janitor is cancelled, the table cleared, every session of it
\* asked to stop and its task, if still running, cancelled
ScanStop ==
  /\ cleanup' = FALSE
  /\ sessions' = {}
  /\ sess' = [id \in DOMAIN sess |->
                IF id \in sessions
                  THEN [sess[id] EXCEPT
                          !.cancel_requested = TRUE,
                          !.pc = IF @ \in {"new", "sleeping"} THEN "killed" ELSE @]
                  ELSE sess[id]]
  /\ UNCHANGED <<engineVars, outerVars, scanKind, nextSid, mono>>

\* time.monotonic() advances
MonoTick ==
  /\ mono < MaxMono
  /\ mono' = mono + 1
  /\ UNCHANGED <<engineVars, outerVars, scanKind, sessions, sess, nextSid, cleanup>>

\* ------------------------------------------------------ polling client
\* a poll that answers with the events from the cursor on
PollEvents_Inclusive(s, c) == SelectSeq(s.events, LAMBDA e : e.seq >= c)

\* poll(): [event for event in session.events if event.seq > after_seq]
PollEvents(s, c) == SelectSeq(s.events, LAMBDA e : e.seq > c)

\* a poll that answers with the seq before the last
PollNextSeq_Stale(s) == IF s.seq > 0 THEN s.seq - 1 ELSE 0

\* poll(): next_seq=session.seq
PollNextSeq(s) == s.seq

\* no answer yet
NoReply ==
  [id |-> 0, after_seq |-> 0, status |-> "none", events |-> <<>>,
   done |-> FALSE, next_seq |-> 0]

\* what poll(id, c) answers: KeyError, which the route turns into 404, or
\* a SearchEventsResponse / SizeEventsResponse
PollResponse(id, c) ==
  IF id \notin sessions
    THEN [id |-> id, after_seq |-> c, status |-> "not_found", events |-> <<>>,
          done |-> FALSE, next_seq |-> 0]
    ELSE [id |-> id, after_seq |-> c, status |-> "ok",
          events |-> PollEvents(sess[id], c), done |-> sess[id].done,
          next_seq |-> PollNextSeq(sess[id])]

\* poll(id, c): the handler
Poll(id, c) ==
  /\ reply' = PollResponse(id, c)
  /\ sess' = IF id \in sessions
               THEN [sess EXCEPT ![id].last_polled_at = mono]
               ELSE sess
  /\ UNCHANGED <<engineVars, driverVars, callVars, scanKind, sessions, nextSid, mono,
                 cleanup>>

\* a poll with any id and any cursor
AnyPoll(id, c) ==
  /\ Poll(id, c)
  /\ UNCHANGED <<cursor, got, seen>>

\* the polling client of one session: it starts with cursor 0, polls with
\* the next_seq of its previous answer, and keeps what it is sent
ClientPoll(id) ==
  /\ Poll(id, cursor[id])
  /\ IF reply'.status = "ok"
       THEN /\ cursor' = [cursor EXCEPT ![id] = reply'.next_seq]
            /\ got' = [got EXCEPT ![id] = @ \o reply'.events]
            /\ seen' = [seen EXCEPT ![id] = @ \/ reply'.done]
       ELSE UNCHANGED <<cursor, got, seen>>

\* the client has not polled yet
ClientInit ==
  /\ reply = NoReply
  /\ cursor = [id \in 1..MaxSessions |-> 0]
  /\ got = [id \in 1..MaxSessions |-> <<>>]
  /\ seen = [id \in 1..MaxSessions |-> FALSE]

\* ------------------------------------------------------------- driver
Paths == 1..MaxPaths                    \* the paths of the remote
Kinds == {"file", "dir", "absent"}      \* what lies at a path

\* no driver call was made yet
NoCall == [stat |-> "none", result |-> "none"]

\* the argument lists delete_path hands to run()
StatArgs(p) == [cmd |-> "lsjson", path |-> p, flags |-> {"--stat", "--hash", "--metadata"}]
DeleteFileArgs(p) == [cmd |-> "deletefile", path |-> p, flags |-> {}]
DeleteDirArgs(p) == [cmd |-> "delete", path |-> p, flags |-> {"--rmdirs"}]

\* what stat(p) can come to: an Entry of a file or of a directory, the
\* RcloneError of run_checked (the path is absent, or the command failed for
\* another reason), or the exception of json.loads / item.get when the
\* command exits 0 with output that is not a JSON object
StatOutcomes(p) ==
  (IF remote[p] = "absent" THEN {} ELSE {remote[p]})
    \cup {"rclone_error", "malformed"}

\* what the delete command does to the remote when it exits 0
Deleted(p) == [remote EXCEPT ![p] = "absent"]

\* whether a delete command can exit 0: deletefile needs a file, delete
\* needs a file or a directory
CanDelete(args) ==
  IF args.cmd = "deletefile"
    THEN remote[args.path] = "file"
    ELSE remote[args.path] # "absent"

\* delete_path(p): stat, then the delete command the stat calls for; an
\* exception other than RcloneError leaves delete_path before any delete
\* command
DeletePath(p, st, rc) ==
  /\ st \in StatOutcomes(p)
  /\ IF st = "malformed"
       THEN /\ rc = 1
            /\ issued' = <<StatArgs(p)>>
            /\ outcome' = [stat |-> st, result |-> "raised"]
            /\ remote' = remote
       ELSE LET args == IF st = "file" THEN DeleteFileArgs(p) ELSE DeleteDirArgs(p)
            IN /\ rc = 0 => CanDelete(args)
               /\ issued' = <<StatArgs(p), args>>
               /\ outcome' = [stat |-> st, result |-> IF rc = 0 THEN "rc0" ELSE "failed"]
               /\ remote' = IF rc = 0 THEN Deleted(p) ELSE remote
  /\ UNCHANGED <<engineVars, scanVars, clientVars, callVars>>

\* somebody else writes a file or a directory to the remote
RemotePut(p, k) ==
  /\ remote[p] = "absent"
  /\ k \in {"file", "dir"}
  /\ remote' = [remote EXCEPT ![p] = k]
  /\ UNCHANGED <<engineVars, scanVars, clientVars, callVars, issued, outcome>>

\* no driver call was made, nothing lies on the remote
DriverIdle ==
  /\ remote = [p \in Paths |-> "absent"]
  /\ issued = <<>>
  /\ outcome = NoCall

\* ------------------------------------------------------------ verifier
\* a remote path "remote:seg/seg", or a path without a colon
SrcRoots == {[colon |-> TRUE, remote |-> "a", path |-> <<"src">>],
             [colon |-> FALSE, remote |-> "", path |-> <<"src">>]}
DstRoots == {[colon |-> TRUE, remote |-> "b", path |-> <<"dst">>],
             [colon |-> FALSE, remote |-> "", path |-> <<"dst">>]}

\* one object of the lsjson output; Hash "": no common hash type, ModTime -1:
\* none
LsItems == [Path : {"f", "g"}, IsDir : BOOLEAN, Size : {1, 2},
            Hash : {"", "x", "y"}, ModTime : {-1, 0, 3}]

\* what one lsjson run gives: its exit code, whether its stdout is JSON, and
\* the objects of the JSON array
LsOutputs ==
  {[rc |-> 1, json |-> FALSE, items |-> <<>>],
   [rc |-> 0, json |-> FALSE, items |-> <<>>]}
    \cup {[rc |-> 0, json |-> TRUE, items |-> its] :
            its \in UNION {[1..n -> LsItems] : n \in 0..MaxEntries}}

\* split_remote: the remote and the path, or RcloneError
SplitRemote(p) ==
  IF ~p.colon
    THEN [raised |-> "RcloneError", remote |-> "", path |-> <<>>]
    ELSE [raised |-> "", remote |-> p.remote, path |-> p.path]

\* join_remote: base extended by child, or RcloneError
JoinRemote(base, child) ==
  LET b == SplitRemote(base)
  IN IF b.raised # ""
       THEN [raised |-> b.raised, value |-> base]
       ELSE [raised |-> "",
             value |-> [colon |-> TRUE, remote |-> b.remote,
                        path |-> b.path \o child]]

\* list(remote_path, recursive): the entries, or the exception it raises
ListEntries(root, out) ==
  IF out.rc # 0 THEN [raised |-> "RcloneError", entries |-> <<>>]
  ELSE IF ~out.json THEN [raised |-> "JSONDecodeError", entries |-> <<>>]
  ELSE IF out.items # <<>> /\ JoinRemote(root, <<>>).raised # ""
    THEN [raised |-> "RcloneError", entries |-> <<>>]
  ELSE [raised |-> "",
        entries |-> [i \in 1..Len(out.items) |->
                       [path |-> JoinRemote(root, <<out.items[i].Path>>).value,
                        is_dir |-> out.items[i].IsDir,
                        size |-> out.items[i].Size,
                        hash |-> out.items[i].Hash,
                        mod_time |-> out.items[i].ModTime]]]

\* s starts with prefix
StartsWith(s, prefix) ==
  /\ Len(prefix) <= Len(s)
  /\ \A i \in 1..Len(prefix) : s[i] = prefix[i]

\* _normalize_path: the path of an item of the source under the destination
NormalizePath(source_root, item_path, for_destination_root) ==
  LET s == SplitRemote(source_root)
      d == SplitRemote(for_destination_root)
      i == SplitRemote(item_path)
      rel == IF s.path # <<>> /\ StartsWith(i.path, s.path)
               THEN SubSeq(i.path, Len(s.path) + 1, Len(i.path))
               ELSE i.path
  IN IF s.raised # "" \/ d.raised # "" \/ i.raised # ""
       THEN [raised |-> "RcloneError", value |-> item_path]
       ELSE [raised |-> "",
             value |-> [colon |-> TRUE, remote |-> d.remote, path |-> d.path \o rel]]

Returned(passed, reason) == [kind |-> "returned", passed |-> passed, reason |-> reason]
Raised(error) == [kind |-> "raised", passed |-> FALSE, reason |-> error]
NoVerdict == [kind |-> "none", passed |-> FALSE, reason |-> ""]

\* the body of the loop of verify_strict for one file of the source: "" when
\* the file passes
VerifyFile(source, destination, src, dst_files) ==
  LET expected == NormalizePath(source, src.path, destination)
      hits == {k \in 1..Len(dst_files) : dst_files[k].path = expected.value}
      dst == dst_files[CHOOSE k \in hits : \A h \in hits : h <= k]
  IN IF expected.raised # "" THEN Raised(expected.raised)
     ELSE IF hits = {} THEN Returned(FALSE, "missing destination file")
     ELSE IF src.size # dst.size THEN Returned(FALSE, "size mismatch")
     ELSE IF src.hash # "" /\ dst.hash # ""
       THEN IF src.hash # dst.hash
              THEN Returned(FALSE, "checksum mismatch")
              ELSE NoVerdict
     ELSE IF src.mod_time # -1 /\ dst.mod_time # -1
              /\ (src.mod_time - dst.mod_time > 2 \/ dst.mod_time - src.mod_time > 2)
       THEN Returned(FALSE, "modtime mismatch without checksum")
     ELSE NoVerdict

\* verify_strict(client, source, destination) when the two lsjson runs give
\* src_out and dst_out
VerifyStrict(source, destination, src_out, dst_out) ==
  LET src_entries == ListEntries(source, src_out)
      dst_entries == ListEntries(destination, dst_out)
      src_files == SelectSeq(src_entries.entries, LAMBDA e : ~e.is_dir)
      dst_files == SelectSeq(dst_entries.entries, LAMBDA e : ~e.is_dir)
      bad == {i \in 1..Len(src_files) :
                VerifyFile(source, destination, src_files[i], dst_files) # NoVerdict}
  IN IF src_entries.raised = "RcloneError"
       THEN Returned(FALSE, "unable to list for verification")
     ELSE IF src_entries.raised # "" THEN Raised(src_entries.raised)
     ELSE IF dst_entries.raised = "RcloneError"
       THEN Returned(FALSE, "unable to list for verification")
     ELSE IF dst_entries.raised # "" THEN Raised(dst_entries.raised)
     ELSE IF Len(src_files) # Len(dst_files)
       THEN Returned(FALSE, "file count mismatch")
     ELSE IF bad # {}
       THEN VerifyFile(source, destination,
                       src_files[CHOOSE i \in bad : \A b \in bad : i <= b], dst_files)
     ELSE Returned(TRUE, "strict verification passed")

NoVerify == [called |-> FALSE]

\* the pending call of verify_strict runs
Verify ==
  /\ vcall # NoVerify
  /\ ~vcall.called
  /\ vcall' = [vcall EXCEPT !.called = TRUE]
  /\ verdict' = VerifyStrict(vcall.source, vcall.destination, vcall.src_out,
                             vcall.dst_out)
  /\ UNCHANGED <<engineVars, scanVars, clientVars, driverVars, runVars, streamVars>>


\* verify_strict was not called
VerifyInit ==
  /\ vcall = NoVerify
  /\ verdict = NoVerdict

\* -------------------------------------------------------- capture mode
\* how one subprocess.run ends: an exit code, or TimeoutExpired
ExitCodes == {0, 1, 3}
RunEnds == [kind : {"exit"}, rc : ExitCodes] \cup {[kind |-> "timeout", rc |-> 0]}

\* the CommandResult of one attempt
AttemptResult(end) ==
  IF end.kind = "timeout"
    THEN [returncode |-> 124, timed_out |-> TRUE, stderr |-> "Timed out after"]
    ELSE [returncode |-> end.rc, timed_out |-> FALSE, stderr |-> ""]

UnknownFailure == [returncode |-> 1, timed_out |-> FALSE, stderr |-> "unknown failure"]
NoResult == [returncode |-> -1, timed_out |-> FALSE, stderr |-> "none"]

\* the loop returns this result at once
ReturnsAtOnce_Never(result) == FALSE
ReturnsAtOnce(result) == result.returncode = 0

\* run(args) is called by a client whose max_retries is m
RunCall(m) ==
  /\ rpc = "idle"
  /\ rpc' = "loop"
  /\ rmax' = m
  /\ rtried' = <<>>
  /\ rresult' = NoResult
  /\ UNCHANGED <<engineVars, scanVars, clientVars, driverVars, verifyVars, streamVars>>

\* one pass of the loop: the attempt runs and ends
RunAttempt(end) ==
  /\ rpc = "loop"
  /\ Len(rtried) < rmax + 1
  /\ LET result == AttemptResult(end)
     IN /\ rtried' = Append(rtried, result)
        /\ IF ReturnsAtOnce(result)
             THEN rpc' = "idle" /\ rresult' = result
             ELSE rpc' = "loop" /\ rresult' = rresult
  /\ UNCHANGED <<engineVars, scanVars, clientVars, driverVars, verifyVars, streamVars,
                 rmax>>

\* the loop is over: run() returns last
RunExhausted ==
  /\ rpc = "loop"
  /\ Len(rtried) >= rmax + 1
  /\ rresult' = IF rtried # <<>> THEN rtried[Len(rtried)] ELSE UnknownFailure
  /\ rpc' = "idle"
  /\ UNCHANGED <<engineVars, scanVars, clientVars, driverVars, verifyVars, streamVars,
                 rmax, rtried>>

\* run() was not called
RunInit ==
  /\ rpc = "idle"
  /\ rmax = 0
  /\ rtried = <<>>
  /\ rresult = NoResult

\* ------------------------------------------------------ streaming mode
NoChild == [state |-> "none", rc |-> 0]
SigKill == -9                           \* returncode of a killed child
ChildCodes == {0, 1, 3}                  \* exit codes of a child that ends itself

\* proc.kill(): a running child is killed, an ended one keeps its code
Kill(c) == IF c.state = "running" THEN [state |-> "exited", rc |-> SigKill] ELSE c

\* the returncode of the result
StreamCode_Child(obs, rc) == rc
StreamCode(obs, rc) ==
  IF obs = "cancelled" THEN 130 ELSE IF obs = "timed_out" THEN 124 ELSE rc

\* the text appended to the child's stderr
StreamNote(obs) ==
  IF obs = "cancelled" THEN "Cancelled by user"
  ELSE IF obs = "timed_out" THEN "Timed out after"
  ELSE ""

\* what the caller other than this call leaves alone
StreamFrame == UNCHANGED <<engineVars, scanVars, clientVars, driverVars, verifyVars, runVars>>

\* run_with_progress(args, on_progress, should_cancel, timeout): the child is
\* started
StreamCall(has_predicate) ==
  /\ spc = "idle"
  /\ spc' = "cancel"
  /\ spred' = has_predicate
  /\ proc' = [state |-> "running", rc |-> 0]
  /\ stop' = FALSE
  /\ late' = FALSE
  /\ sobs' = "none"
  /\ sresult' = NoResult
  /\ StreamFrame

\* the loop asks should_cancel()
StreamCheckCancel ==
  /\ spc = "cancel"
  /\ IF spred /\ stop
       THEN sobs' = "cancelled" /\ proc' = Kill(proc) /\ spc' = "finally"
       ELSE sobs' = sobs /\ proc' = proc /\ spc' = "deadline"
  /\ UNCHANGED <<spred, stop, late, sresult>>
  /\ StreamFrame

\* the loop compares time.monotonic() with the deadline
StreamCheckDeadline ==
  /\ spc = "deadline"
  /\ IF late
       THEN sobs' = "timed_out" /\ proc' = Kill(proc) /\ spc' = "finally"
       ELSE sobs' = sobs /\ proc' = proc /\ spc' = "poll"
  /\ UNCHANGED <<spred, stop, late, sresult>>
  /\ StreamFrame

\* the loop polls the child, and sleeps when it still runs
StreamPoll ==
  /\ spc = "poll"
  /\ spc' = IF proc.state = "exited" THEN "finally" ELSE "cancel"
  /\ UNCHANGED <<spred, proc, stop, late, sobs, sresult>>
  /\ StreamFrame

\* the finally clause and the return
StreamReturn ==
  /\ spc = "finally"
  /\ proc' = Kill(proc)
  /\ sresult' = [returncode |-> StreamCode(sobs, proc'.rc),
                 timed_out |-> sobs = "timed_out",
                 stderr |-> StreamNote(sobs)]
  /\ spc' = "idle"
  /\ UNCHANGED <<spred, stop, late, sobs>>
  /\ StreamFrame

\* the child ends by itself
ChildExit(rc) ==
  /\ proc.state = "running"
  /\ proc' = [state |-> "exited", rc |-> rc]
  /\ UNCHANGED <<spc, spred, stop, late, sobs, sresult>>
  /\ StreamFrame

\* the caller's predicate turns true
StopRequested ==
  /\ spc # "idle"
  /\ ~stop
  /\ stop' = TRUE
  /\ UNCHANGED <<spc, spred, proc, late, sobs, sresult>>
  /\ StreamFrame

\* the clock passes the deadline
DeadlinePasses ==
  /\ spc # "idle"
  /\ ~late
  /\ late' = TRUE
  /\ UNCHANGED <<spc, spred, proc, stop, sobs, sresult>>
  /\ StreamFrame

\* run_with_progress() was not called
StreamInit ==
  /\ spc = "idle"
  /\ spred = FALSE
  /\ proc = NoChild
  /\ stop = FALSE
  /\ late = FALSE
  /\ sobs = "none"
  /\ sresult = NoResult

\* ------------------------------------------------------- specification
\* no scan session exists and the janitor is not started
ScanInit ==
  /\ sessions = {}
  /\ sess = <<>>
  /\ nextSid = 1
  /\ mono = 0
  /\ cleanup = FALSE

Init ==
  /\ EngineInit /\ scanKind = "search" /\ ScanInit /\ ClientInit /\ DriverIdle
  /\ VerifyInit /\ RunInit /\ StreamInit

\* the steps of the cancel() handler thread
CancelStep ==
  \/ \E j \in DOMAIN jobs : CancelBegin(j)
  \/ CancelCheck
  \/ CancelSetStatus
  \/ CancelSetCompleted
  \/ CancelSnapshot
  \/ CancelPersist

\* the steps of the worker coroutine
WorkerStep ==
  \/ WorkerDequeue
  \/ WorkerSetRunning
  \/ WorkerPersistRunning
  \/ WorkerDeleteLoop
  \/ \E out \in Outcomes : WorkerDeleteReturn(out)
  \/ WorkerTransferLoop
  \/ \E out \in Outcomes : WorkerDirectReturn(out)
  \/ \E e \in Estimates : WorkerEstimate(e)
  \/ WorkerAdmissionWait
  \/ WorkerAdmit
  \/ \E out \in Outcomes : WorkerFallbackReturn(out)
  \/ \E out \in Outcomes : WorkerVerifyReturn(out)
  \/ \E out \in Outcomes : WorkerSourceDeleteReturn(out)

\* sources the model may still hand to a new job
SourcesLeft == MaxSources - SourcesUpTo(nextId - 1)

\* submissions while fewer than `limit` jobs exist
Submit(limit) ==
  /\ nextId <= limit
  /\ \/ \E op \in {"copy", "move"}, n \in 0..SourcesLeft : SubmitTransfer(op, n)
     \/ \E n \in 0..SourcesLeft : SubmitDelete(n)

\* one engine over its whole life: boot, requests, worker, crash and reboot
Next ==
  \/ Start
  \/ Restart
  \/ Submit(MaxJobs)
  \/ CancelStep
  \/ WorkerStep

Spec == Init /\ [][Next]_vars

\* one process draining a queue of several jobs, no cancel() calls
NextQueue ==
  \/ Start
  \/ Submit(MaxQueued)
  \/ WorkerStep

SpecQueue == Init /\ [][NextQueue]_vars

\* the same process when the event loop keeps running the worker and every
\* driver call returns: a step of the worker that can be taken is taken
SpecQueueFair == SpecQueue /\ WF_vars(WorkerStep)

\* one process with several jobs and cancel() calls on any of them
NextStore ==
  \/ Start
  \/ Submit(MaxQueued)
  \/ CancelStep
  \/ WorkerStep

SpecStore == Init /\ [][NextStore]_vars

\* one engine with a clock that advances between any two steps
NextClock ==
  \/ Tick
  \/ Start
  \/ Restart
  \/ Submit(MaxJobs)
  \/ CancelStep
  \/ WorkerStep

SpecClock == Init /\ [][NextClock]_vars

\* one scan manager, search or size, with its clients, tasks and janitor
NextScan ==
  \/ ScanStart
  \/ ScanCreate
  \/ \E id \in DOMAIN sess : TaskBegin(id, MaxEvents)
  \/ \E id \in DOMAIN sess, listing \in {"pending", "items", "rclone_error"},
        nonempty \in BOOLEAN, d \in {0, 1}, m \in {0, 1} :
       TaskWake(id, listing, nonempty, d, m, 1, MaxEvents)
  \/ \E id \in sessions : ScanPoll(id)
  \/ \E id \in sessions : ScanCancel(id)
  \/ Janitor
  \/ ScanStop
  \/ MonoTick

InitScan ==
  /\ EngineInit /\ scanKind \in ScanKinds /\ ScanInit /\ ClientInit /\ DriverIdle
  /\ VerifyInit /\ RunInit /\ StreamInit

SpecScan == InitScan /\ [][NextScan]_vars

\* a scan manager polled with any id and any cursor at any time
NextPoll ==
  \/ ScanCreate
  \/ \E id \in DOMAIN sess : TaskBegin(id, MaxEvents)
  \/ \E id \in DOMAIN sess, listing \in {"pending", "items"}, d \in {0, 1}, m \in {0, 1} :
       TaskWake(id, listing, listing = "items", d, m, 1, MaxEvents)
  \/ \E id \in 1..MaxSessions, c \in 0..MaxEvents : AnyPoll(id, c)
  \/ ScanStop
  \/ MonoTick

SpecPoll == InitScan /\ [][NextPoll]_vars

\* a scan manager over remotes of every shape: a listing returns up to two
\* sub-directories and a counted entry of known or unknown size, or fails
NextTree ==
  \/ ScanCreate
  \/ \E id \in DOMAIN sess : TaskBegin(id, MaxTree)
  \/ \E id \in DOMAIN sess, listing \in Listings, nonempty \in BOOLEAN,
        d \in 0..2, m \in {0, 1}, z \in Sizes :
       TaskWake(id, listing, nonempty, d, m, z, MaxTree)
  \/ \E id \in sessions : ScanCancel(id)

SpecTree == InitScan /\ [][NextTree]_vars

\* the driver called on a remote that others write to
NextDriver ==
  \/ \E p \in Paths, k \in Kinds : RemotePut(p, k)
  \/ \E p \in Paths, st \in {"file", "dir", "rclone_error", "malformed"},
        rc \in {0, 1} :
       DeletePath(p, st, rc)

SpecDriver == Init /\ [][NextDriver]_vars

\* calls of run() in capture mode, one after the other
NextRun ==
  \/ \E m \in 0..MaxRetries : RunCall(m)
  \/ \E end \in RunEnds : RunAttempt(end)
  \/ RunExhausted

SpecRun == Init /\ [][NextRun]_vars

\* calls of run_with_progress(), one after the other, with a child that
\* may end, a predicate that may turn true and a deadline that may pass at
\* any moment
NextStream ==
  \/ \E has_predicate \in BOOLEAN : StreamCall(has_predicate)
  \/ StreamCheckCancel
  \/ StreamCheckDeadline
  \/ StreamPoll
  \/ StreamReturn
  \/ \E rc \in ChildCodes : ChildExit(rc)
  \/ StopRequested
  \/ DeadlinePasses

SpecStream == Init /\ [][NextStream]_vars

\* calls of verify_strict with any pair of roots and any pair of listings
InitVerify ==
  /\ EngineInit /\ scanKind = "search" /\ ScanInit /\ ClientInit /\ DriverIdle
  /\ vcall \in [called : {FALSE}, source : SrcRoots, destination : DstRoots,
                 src_out : LsOutputs, dst_out : LsOutputs]
  /\ verdict = NoVerdict
  /\ RunInit /\ StreamInit

SpecVerify == InitVerify /\ [][Verify]_vars

\* a scan manager and, for every session, a client that polls it as the
\* API expects
NextClient ==
  \/ ScanCreate
  \/ \E id \in DOMAIN sess : TaskBegin(id, MaxEvents)
  \/ \E id \in DOMAIN sess, listing \in {"pending", "items", "rclone_error"},
        nonempty \in BOOLEAN, d \in {0, 1}, m \in {0, 1} :
       TaskWake(id, listing, nonempty, d, m, 1, MaxEvents)
  \/ \E id \in 1..MaxSessions : ClientPoll(id)
  \/ \E id \in sessions : ScanCancel(id)
  \/ ScanStop

SpecClient == InitScan /\ [][NextClient]_vars

\* ---------------------------------------------------------------- claims
JobIds == DOMAIN db
Happened(j, i, ev) == <<j, i, ev>> \in hist
MoveItems == {e \in hist : db[e[1]].operation = "move"}

\* C1: a move job calls delete_path on a source only after that source's
\* copy (direct or fallback) succeeded and verify_strict passed for it; a
\* source whose copy or verification failed is never deleted by the job.
C1_DeleteOnlyAfterVerifiedCopy ==
  \A e \in MoveItems :
    /\ e[3] = "delete_call" =>
         Happened(e[1], e[2], "copy_ok") /\ Happened(e[1], e[2], "verify_ok")
    /\ e[3] \in {"copy_fail", "verify_fail"} =>
         ~Happened(e[1], e[2], "delete_call")

C1_Witness ==
  \E j \in JobIds :
    /\ db[j].operation = "move"
    /\ Happened(j, 1, "verify_fail")
    /\ Happened(j, 2, "copy_ok")
    /\ Happened(j, 2, "delete_call")

\* a successful item of a move job is complete and its source delete exited 0
MoveItemsComplete(job, j) ==
  job.operation = "move" =>
    \A i \in 1..Len(job.results) :
      job.results[i].status = "success" =>
        /\ job.results[i].direct_attempted
        /\ job.results[i].verify_passed
        /\ Happened(j, job.results[i].source, "delete_ok")

\* C2: every result of a move job whose status is success has
\* direct_attempted and verify_passed set, and the delete_path call on its
\* source returned exit code 0.
C2_SuccessfulMoveItem ==
  \A j \in JobIds : MoveItemsComplete(jobs[j], j) /\ MoveItemsComplete(db[j], j)

C2_Witness ==
  \E j \in JobIds :
    /\ db[j].operation = "move"
    /\ db[j].status = "success"
    /\ Len(db[j].results) = 2
    /\ db[j].results[1].fallback_used

\* C3: every stored job whose status is success, failed, cancelled or
\* interrupted has completed_at set, the jobs the recovery sweep rewrote
\* included.
C3_TerminalHasCompletedAt ==
  \A j \in JobIds : db[j].status \in Terminal => db[j].completed_at # Null

RunningShape(job) ==
  job.status = "running" => job.started_at # Null /\ job.completed_at = Null

\* C4: a running job, in the table and in the store, has started_at set and
\* completed_at null, under every interleaving of cancel() with the worker.
C4_RunningHasNoCompletedAt ==
  \A j \in JobIds : RunningShape(jobs[j]) /\ RunningShape(db[j])

AllItemsSucceeded(job) ==
  /\ Len(job.results) = job.nsrc
  /\ \A i \in 1..Len(job.results) :
       job.results[i].status = "success" /\ job.results[i].source = i

\* C5: a job whose status is success has only successful results, exactly
\* one per source, in source order.
C5_SuccessMeansAllItemsSucceeded ==
  \A j \in JobIds :
    /\ jobs[j].status = "success" => AllItemsSucceeded(jobs[j])
    /\ db[j].status = "success" => AllItemsSucceeded(db[j])

C5_Witness ==
  \E j \in JobIds :
    /\ db[j].status = "success"
    /\ db[j].nsrc = 2
    /\ Len(db[j].results) = 2

\* C6: a job whose status is failed has at least one result whose status is
\* not success, also when the worker's crash handler marked it failed.
C6_FailedHasFailedItem ==
  \A j \in JobIds :
    db[j].status = "failed" =>
      \E i \in 1..Len(db[j].results) : db[j].results[i].status # "success"

SweepStep == ~worker /\ worker'

\* C7: the recovery sweep rewrites exactly the stored running jobs to
\* interrupted, changing nothing but their status: afterwards no stored job
\* is running and every other stored job is as it was.
C7_SweepRewritesExactlyRunning ==
  [][SweepStep =>
       /\ DOMAIN db' = DOMAIN db
       /\ \A j \in DOMAIN db :
            /\ db'[j].status # "running"
            /\ db[j].status = "running" =>
                 db'[j] = [db[j] EXCEPT !.status = "interrupted"]
            /\ db[j].status # "running" => db'[j] = db[j]]_vars

C7_Witness ==
  \E j \in bootRunning :
    /\ worker
    /\ db[j].status = "interrupted"
    /\ Len(db[j].results) = 1
    /\ db[j].nsrc = 2

InQueue(j) == \E k \in 1..Len(queue) : queue[k] = j

\* C8: start() sweeps before the worker exists and at most once per
\* process; a job the sweep found running is interrupted in the store and
\* in the table, is not on the queue and is never held by the worker.
C8_SweepOnceBeforeWorker ==
  /\ sweeps <= 1
  /\ worker => sweeps = 1
  /\ wpc # "idle" => worker
  /\ \A j \in bootRunning :
       /\ db[j].status = "interrupted"
       /\ jobs[j].status = "interrupted"
       /\ cur # j
       /\ ~InQueue(j)

C8_Witness ==
  \E j \in bootRunning : worker /\ sweeps = 1 /\ db[j].started_at # Null

BecomesInterrupted(j) ==
  \/ jobs'[j].status = "interrupted" /\ jobs[j].status # "interrupted"
  \/ db'[j].status = "interrupted" /\ db[j].status # "interrupted"

\* C9: only the recovery sweep of start() writes the status interrupted;
\* no submit, cancel or worker step does.
C9_InterruptedOnlyBySweep ==
  [][\A j \in DOMAIN jobs : BecomesInterrupted(j) => SweepStep]_vars

C9_Witness ==
  \E j \in bootRunning : j \in cancelled /\ canPc = "idle" /\ worker

AtDriverCall ==
  wpc \in {"del_call", "direct", "fb_estimate", "fb_admit", "fb_copy", "verify",
           "srcdel"}

PreviousItemsRecorded ==
  AtDriverCall =>
    /\ Len(jobs[cur].results) = idx - 1
    /\ \A i \in 1..Len(jobs[cur].results) :
         /\ jobs[cur].results[i].source = i
         /\ jobs[cur].results[i].status \in {"success", "failed"}

BecomesRunning == wpc = "start" /\ wpc' = "persist_start"

\* C10: jobs become running in the order they were submitted (job ids are
\* handed out in submission order), and the driver works on source i+1 of
\* a job only when sources 1..i each have their result recorded.
C10_FifoAndSequentialItems ==
  /\ []PreviousItemsRecorded
  /\ [][BecomesRunning =>
          \A k \in DOMAIN jobs :
            /\ jobs[k].started_at # Null => k < cur
            /\ k < cur => ~InQueue(k)]_vars

C10_Witness ==
  /\ cur = 2
  /\ wpc = "persist_start"
  /\ jobs[1].nsrc = 2
  /\ Len(jobs[1].results) = 2

\* the cancel() handler returns after it found the job queued
CancelReturnsFromQueued ==
  canPc = "write" /\ canPc' = "idle" /\ canJob \in cancelled'

\* the worker starts a driver call on a source
StartsItem ==
  /\ wpc \in {"del_loop", "xfer_loop"}
  /\ wpc' \in {"del_call", "direct"}

\* C11: a job cancel() found queued is cancelled with completed_at set in
\* the store when cancel() returns, the worker never sets a cancelled job
\* running, and the worker starts no driver call on a source of a job
\* whose cancel was recorded.
C11_CancelQueuedIsFinal ==
  /\ [][CancelReturnsFromQueued =>
          /\ db'[canJob].status = "cancelled"
          /\ db'[canJob].completed_at # Null]_vars
  /\ [][BecomesRunning => jobs[cur].status # "cancelled"]_vars
  /\ [][StartsItem => cur \notin cancelled]_vars

\* the worker moves on to a later sub-stage of the item it is working on
StartsSubStage ==
  /\ wpc \in {"direct", "fb_copy", "verify"}
  /\ wpc' \in {"fb_estimate", "verify", "srcdel"}

\* C12: once cancel() is recorded for a running transfer job the worker
\* starts no further sub-stage (fallback copy, verification, source delete)
\* of the current item; a move job deletes no source after the cancel.
C12_CancelStopsSubStages ==
  [][StartsSubStage => cur \notin cancelled]_vars

\* the worker writes the final status of the job it holds
FinalWrite ==
  /\ wpc \in {"del_loop", "xfer_loop"}
  /\ wpc' = "idle"
  /\ worker'

AnyItemFailed(job) ==
  \E i \in 1..Len(job.results) : job.results[i].status = "failed"

\* a cancel the loop head did not see: it was recorded after the job's first
\* item had started
CancelledWhileRunning == cur \in cancelled /\ jobs[cur].results # <<>>

\* C13: a running job whose cancel was recorded while it ran, the time its
\* last source is processed included, ends cancelled; a job with no cancel
\* recorded ends failed if an item failed and success if none did.
C13_FinalStatusHonoursCancel ==
  [][FinalWrite =>
       /\ CancelledWhileRunning => jobs'[cur].status = "cancelled"
       /\ cur \notin cancelled =>
            jobs'[cur].status =
              IF AnyItemFailed(jobs[cur]) THEN "failed" ELSE "success"]_vars

\* the except branch of the worker runs for the job it holds
CrashStep == cur # 0 /\ ~jobs[cur].crashLog /\ jobs'[cur].crashLog

\* C14: when running a job raises, the worker marks the job failed with
\* completed_at set and the crash line logged, persists it, leaves the
\* queue as it was and is back at queue.get(); a worker at queue.get() with
\* a job on the queue can always take it.
C14_CrashKeepsWorkerAlive ==
  /\ [][CrashStep =>
          /\ jobs'[cur].status = "failed"
          /\ jobs'[cur].completed_at # Null
          /\ db'[cur] = jobs'[cur]
          /\ queue' = queue
          /\ worker'
          /\ wpc' = "idle"]_vars
  /\ [](worker /\ wpc = "idle" /\ queue # <<>> => ENABLED WorkerDequeue)

C14_Witness ==
  /\ Len(jobs) = 2
  /\ jobs[1].crashLog
  /\ jobs[1].status = "failed"
  /\ db[2].status = "success"
  /\ Len(db[2].results) = 1

\* the worker passes the admission loop of _fallback_copy
AdmitStep == wpc = "fb_admit" /\ wpc' = "fb_copy"

\* the finally clause of _fallback_copy runs
ReleaseStep == wpc = "fb_copy" /\ wpc' # "fb_copy" /\ worker'

\* C15: staging_in_use_bytes never exceeds the cap, in particular between
\* a fallback's admission and its release, and a fallback is admitted only
\* when staging_in_use_bytes + estimate <= cap.
C15_StagingWithinCap ==
  /\ [](staging <= StagingCap)
  /\ [][AdmitStep =>
          /\ staging + est <= StagingCap
          /\ staging' = staging + est]_vars

C15_Witness ==
  /\ wpc = "fb_copy"
  /\ est = StagingCap
  /\ staging = StagingCap

\* C16: staging_in_use_bytes is never negative, whatever the estimate, and
\* when a fallback completes (success, failure or exception) it is back at
\* the value it had just before the admission.
C16_StagingNonNegativeAndRestored ==
  /\ [](staging >= 0)
  /\ [][ReleaseStep => staging' = staging - est]_vars

\* item i of transfer job j went through a failed direct copy, a fallback
\* whose pull and push returned zero, and a verification that passed
FallbackVerified(j, i) ==
  /\ Happened(j, i, "direct_fail")
  /\ Happened(j, i, "copy_ok")
  /\ Happened(j, i, "verify_ok")

AllFlagsSet(item) ==
  item.direct_attempted /\ item.fallback_used /\ item.verify_passed

\* fallback_used is set exactly on the items whose direct copy returned
\* non-zero
FallbackFlagExact(job, j) ==
  job.operation # "delete" =>
    \A i \in 1..Len(job.results) :
      job.results[i].fallback_used <=> Happened(j, job.results[i].source, "direct_fail")

\* as the claim words it: verified after a fallback means recorded success
FallbackVerifiedIsSuccess(job, j) ==
  job.operation # "delete" =>
    \A i \in 1..Len(job.results) :
      FallbackVerified(j, job.results[i].source) =>
        job.results[i].status = "success" /\ AllFlagsSet(job.results[i])

\* the same, with the source delete of a move job taken into account
FallbackVerifiedOutcome(job, j) ==
  job.operation # "delete" =>
    \A i \in 1..Len(job.results) :
      FallbackVerified(j, job.results[i].source) =>
        /\ AllFlagsSet(job.results[i])
        /\ job.results[i].status = "success" <=>
             (job.operation = "move" =>
                Happened(j, job.results[i].source, "delete_ok"))

\* C17 as stated: fallback_used is true exactly when the direct copy
\* returned non-zero, and an item whose fallback succeeded and whose
\* verification passed is recorded success with all three flags true.
C17_AsStated ==
  \A j \in JobIds :
    /\ FallbackFlagExact(jobs[j], j) /\ FallbackFlagExact(db[j], j)
    /\ FallbackVerifiedIsSuccess(jobs[j], j) /\ FallbackVerifiedIsSuccess(db[j], j)

\* C17: fallback_used is true exactly when the direct copy returned
\* non-zero; a successful fallback proceeds to verification; an item whose
\* fallback succeeded and whose verification passed is recorded with all
\* three flags true, and with status success exactly when the job is a copy
\* or the source delete of the move returned zero.
C17_FallbackItem ==
  /\ [](\A j \in JobIds :
          /\ FallbackFlagExact(jobs[j], j) /\ FallbackFlagExact(db[j], j)
          /\ FallbackVerifiedOutcome(jobs[j], j) /\ FallbackVerifiedOutcome(db[j], j))
  /\ [][wpc = "fb_copy" /\ worker' /\ <<cur, idx, "copy_ok">> \in hist'
          => wpc' = "verify"]_vars

C17_Witness ==
  \E j \in JobIds :
    /\ db[j].operation = "move"
    /\ Len(db[j].results) = 2
    /\ FallbackVerified(j, 1) /\ db[j].results[1].status = "failed"
    /\ FallbackVerified(j, 2) /\ db[j].results[2].status = "success"

\* the items of a delete job: one per processed source, in source order,
\* each telling what delete_path returned
DeleteItemsFaithful(job, j) ==
  job.operation = "delete" =>
    /\ Len(job.results) <= job.nsrc
    /\ \A i \in 1..Len(job.results) :
         /\ job.results[i].source = i
         /\ \/ /\ job.results[i].status = "failed"
               /\ job.results[i].error = "delete"
               /\ Happened(j, i, "delete_fail")
            \/ /\ job.results[i].status = "success"
               /\ job.results[i].error = "none"
               /\ Happened(j, i, "delete_ok")

\* delete_path returned (zero or non-zero) to the worker of a delete job
DeleteReturned == wpc = "del_call" /\ wpc' = "del_loop"

\* the loop of _run_delete goes on from its head
DeleteLoopGoesOn == wpc = "del_loop" /\ wpc' # "del_loop" /\ worker'

\* C18: a delete job records one item per processed source, in order:
\* failed with the driver's stderr when delete_path returned non-zero,
\* success when it returned zero; after an item of either kind the loop
\* takes the next source; with every delete returning zero and no cancel
\* recorded the job ends success.
C18_DeleteJobItems ==
  /\ [](\A j \in JobIds :
          DeleteItemsFaithful(jobs[j], j) /\ DeleteItemsFaithful(db[j], j))
  /\ [][DeleteReturned =>
          /\ Len(jobs'[cur].results) = idx
          /\ idx' = idx + 1]_vars
  /\ [][DeleteLoopGoesOn /\ idx <= jobs[cur].nsrc /\ cur \notin cancelled =>
          wpc' = "del_call" /\ <<cur, idx, "delete_call">> \in hist']_vars
  /\ [][DeleteLoopGoesOn /\ idx > jobs[cur].nsrc /\ cur \notin cancelled =>
          jobs'[cur].status =
            IF AnyItemFailed(jobs[cur]) THEN "failed" ELSE "success"]_vars

C18_Witness ==
  \E j \in JobIds :
    /\ db[j].operation = "delete"
    /\ db[j].status = "failed"
    /\ Len(db[j].results) = 2
    /\ db[j].results[1].status = "failed"
    /\ db[j].results[2].status = "success"

\* the timestamps of a job in a terminal status are in order, where set
TimestampsOrdered(job) ==
  job.status \in Terminal =>
    /\ job.started_at # Null => job.started_at >= job.created_at
    /\ job.completed_at # Null => job.completed_at >= job.created_at
    /\ job.started_at # Null /\ job.completed_at # Null =>
         job.completed_at >= job.started_at

\* C19: every job in a terminal status, in the table and in the store, has
\* completed_at >= started_at >= created_at wherever they are set, under
\* every interleaving of cancel() with the worker.
C19_TimestampsOrdered ==
  \A j \in JobIds : TimestampsOrdered(jobs[j]) /\ TimestampsOrdered(db[j])

\* the events of a session are numbered 1, 2, ... without gap or repeat
\* and the session's seq is the number of the last one
SeqDense(s) ==
  /\ s.seq = Len(s.events)
  /\ \A k \in 1..Len(s.events) : s.events[k].seq = k

\* C20: in every reachable state the events of every scan session, search
\* or size, carry the seq values 1..n in order, so two consecutive events
\* differ by exactly 1, and session.seq is the seq of the last event.
C20_EventSeqDense ==
  \A id \in DOMAIN sess : SeqDense(sess[id])

C20_Witness ==
  \E id \in DOMAIN sess :
    /\ scanKind = "search"
    /\ Len(sess[id].events) = MaxEvents
    /\ sess[id].events[2].type = "result"
    /\ sess[id].events[MaxEvents].type = "done"
    /\ sess[id].seq = MaxEvents

\* the part of a session the emitters write
Emitted(s) == <<s.seq, s.events, s.done, s.done_at>>

\* C21: once a session is done its done_at is set, and from then on its
\* events, seq, done and done_at never change, whatever the task, the
\* janitor, cancel(), poll() and stop() do afterwards.
C21_DoneIsFinal ==
  /\ [](\A id \in DOMAIN sess : sess[id].done => sess[id].done_at # NoTime)
  /\ [][\A id \in DOMAIN sess :
          sess[id].done => Emitted(sess'[id]) = Emitted(sess[id])]_vars

C21_Witness ==
  \E id \in sessions :
    /\ sess[id].done
    /\ sess[id].done_at = 0
    /\ sess[id].last_polled_at = MaxMono
    /\ sess[id].cancel_requested
    /\ sess[id].events[Len(sess[id].events)].status = "success"

\* the events of type done of a session
DoneEvents(s) == {k \in 1..Len(s.events) : s.events[k].type = "done"}

\* C22 as stated: every session whose task has terminated, by returning or
\* by being cancelled in stop(), has exactly one done event, and it is the
\* last event of the session.
C22_TerminatedHasOneDone ==
  \A id \in DOMAIN sess :
    sess[id].pc \in {"finished", "killed"} =>
      DoneEvents(sess[id]) = {Len(sess[id].events)} /\ sess[id].events # <<>>

\* the events of a sequence, as a set
Members(es) == {es[k] : k \in 1..Len(es)}

\* the events of an answer come in ascending seq order
Ascending(es) == \A k \in 1..(Len(es) - 1) : es[k].seq < es[k + 1].seq

\* the answer to poll(id, c) is right for the state the poll found
RightAnswer(id, c) ==
  IF id \in sessions
    THEN /\ reply'.status = "ok"
         /\ Members(reply'.events) = {e \in Members(sess[id].events) : e.seq > c}
         /\ Ascending(reply'.events)
         /\ reply'.done = sess[id].done
         /\ reply'.next_seq = sess[id].seq
         /\ sess'[id].last_polled_at = mono
         /\ \A other \in DOMAIN sess : other # id => sess'[other] = sess[other]
         /\ Emitted(sess'[id]) = Emitted(sess[id])
    ELSE /\ reply'.status = "not_found"
         /\ reply'.events = <<>>
         /\ UNCHANGED scanVars

\* C23: poll(id, c) on a session of the table answers with exactly the
\* events whose seq is above c, in ascending order, with the session's done
\* flag and with next_seq equal to its seq, and sets last_polled_at to the
\* current time; on an id the table does not hold it fails with not-found
\* and changes nothing.
C23_PollAnswer ==
  [][\A id \in 1..MaxSessions, c \in 0..MaxEvents :
       AnyPoll(id, c) => RightAnswer(id, c)]_vars

C23_Witness ==
  /\ reply.status = "ok"
  /\ reply.after_seq = 1
  /\ Len(reply.events) = MaxEvents - 1
  /\ reply.done
  /\ reply.next_seq = MaxEvents
  /\ sess[reply.id].last_polled_at = MaxMono

\* what the client holds is what the session emitted up to its cursor,
\* every event once and in order
ReceivedPrefix(id) ==
  /\ cursor[id] <= Len(sess[id].events)
  /\ got[id] = SubSeq(sess[id].events, 1, cursor[id])
  /\ \A k \in 1..Len(got[id]) : got[id][k].seq = k

\* an answered poll of the client brings it up to date, and the answer that
\* shows it done = true for the first time ends with the done event
ClientServed(id) ==
  reply'.status = "ok" =>
    /\ reply'.events = SubSeq(sess[id].events, cursor[id] + 1, Len(sess[id].events))
    /\ got'[id] = sess[id].events
    /\ reply'.done /\ ~seen[id] =>
         /\ reply'.events # <<>>
         /\ reply'.events[Len(reply'.events)].type = "done"
         /\ DoneEvents(sess[id]) = {Len(got'[id])}

\* C24: a client that starts with cursor 0 and always polls with the
\* next_seq of its previous answer receives every event of the session
\* exactly once and in seq order, whatever the task emits between its
\* polls, and the answer in which it first sees done = true has the done
\* event as its last event.
C24_ClientSeesEveryEventOnce ==
  /\ [](\A id \in DOMAIN sess : ReceivedPrefix(id))
  /\ [][\A id \in 1..MaxSessions : ClientPoll(id) => ClientServed(id)]_vars

C24_Witness ==
  \E id \in sessions :
    /\ Len(got[id]) = MaxEvents
    /\ seen[id]
    /\ reply.id = id
    /\ reply.after_seq = 1
    /\ Len(reply.events) = MaxEvents - 1
    /\ got[id][2].type = "result"

\* the status of the latest event of a session
LastStatus(s) == s.events[Len(s.events)].status

\* C25 as stated: when cancel(id) has set cancel_requested before the done
\* event is appended, the done event the task then appends has status
\* cancelled.
C25_CancelEndsCancelled ==
  [][\A id \in sessions :
       sess[id].cancel_requested /\ ~sess[id].done /\ sess'[id].done
         => LastStatus(sess'[id]) = "cancelled"]_vars

\* what a janitor pass may do to a session that is not done: leave it in
\* the table, and ask it to stop if nobody polled it for too long
SparedByJanitor(id) ==
  /\ id \in sessions'
  /\ sess'[id] = [sess[id] EXCEPT
                    !.cancel_requested =
                      @ \/ mono - sess[id].last_polled_at > UnpolledTimeout]

\* C26: a janitor pass never removes a session that is not done: if nobody
\* polled it for longer than unpolled_timeout_seconds it only sets
\* cancel_requested, and otherwise leaves it alone; a session leaves the
\* table in a pass only when it is done and its done event is older than
\* terminal_retention_seconds, and until then it stays pollable.
C26_JanitorSparesRunning ==
  [][Janitor =>
       \A id \in sessions :
         /\ ~sess[id].done => SparedByJanitor(id)
         /\ id \notin sessions' =>
              sess[id].done /\ mono - sess[id].done_at > TerminalRetention
         /\ id \in sessions' => PollResponse(id, 0)'.status = "ok"]_vars

C26_Witness ==
  \E id \in sessions :
    /\ cleanup
    /\ ~sess[id].done
    /\ sess[id].pc = "sleeping"
    /\ sess[id].cancel_requested
    /\ sess[id].last_polled_at = 0
    /\ mono = MaxMono

\* the sessions of the table whose retention has run out
Expired == {id \in sessions :
              sess[id].done /\ mono - sess[id].done_at > TerminalRetention}

\* C27: while the janitor runs, a done session is removed by the janitor
\* pass that finds now - done_at > terminal_retention_seconds and by no step
\* before; an id the table has lost never returns to it, and every poll of
\* it fails with not-found.
C27_RemovedAfterRetention ==
  /\ [][Janitor => sessions' = sessions \ Expired]_vars
  /\ [][cleanup /\ cleanup' => sessions \ sessions' \subseteq Expired]_vars
  /\ [][\A id \in DOMAIN sess : id \notin sessions => id \notin sessions']_vars
  /\ [](\A id \in DOMAIN sess, c \in 0..MaxEvents :
          id \notin sessions => PollResponse(id, c).status = "not_found")

C27_Witness ==
  \E id \in DOMAIN sess :
    /\ cleanup
    /\ id \notin sessions
    /\ sess[id].done
    /\ ~sess[id].cancel_requested
    /\ sess[id].done_at < mono
    /\ PollResponse(id, 0).status = "not_found"

\* the done event a failed listing must produce, from the session as the
\* failure found it
FailureReported(s, t, listing) ==
  LET ev == t.events[Len(t.events)]
      asCancel == s.cancel_requested \/ listing = "rclone_cancelled"
  IN /\ t.events = Append(s.events, ev)
     /\ ev.type = "done"
     /\ ev.status = IF asCancel THEN "cancelled" ELSE "failed"
     /\ ~asCancel => ev.error # NoError
     /\ t.done
     /\ t.pc = "finished"
     /\ t.listed = s.listed

\* C28: when the listing of a directory fails, the task emits done with
\* status cancelled if cancel_requested is set or the failure is a driver
\* error whose text contains "Cancelled by user", and otherwise done with
\* status failed and the error text; it lists no further directory, and
\* no event follows the done event.
C28_ListingFailureEndsScan ==
  /\ [][\A id \in DOMAIN sess, listing \in Failures :
          TaskWake(id, listing, FALSE, 0, 0, 1, MaxTree)
            => FailureReported(sess[id], sess'[id], listing)]_vars
  /\ [][\A id \in DOMAIN sess :
          sess[id].pc = "finished" =>
            /\ sess'[id].events = sess[id].events
            /\ sess'[id].listed = sess[id].listed]_vars

C28_Witness ==
  \E id \in sessions :
    /\ sess[id].done
    /\ ~sess[id].cancel_requested
    /\ LastStatus(sess[id]) = "failed"
    /\ sess[id].events[Len(sess[id].events)].error = "exc"
    /\ Len(sess[id].listed) = 2
    /\ sess[id].frontier # <<>>

\* the result events of a session
ResultEvents(s) == {k \in 1..Len(s.events) : s.events[k].type = "result"}

\* C29: a scan that ends with done(success) has listed every directory
\* reachable from the root exactly once, in breadth-first order, and its
\* done event carries the totals: scanned_dirs is the number of directories;
\* for a search matched_count is the number of result events and of
\* matching entries; for a size scan files_count is the number of files and
\* bytes_total the sum of max(size, 0) over them.
C29_SuccessIsComplete ==
  \A id \in DOMAIN sess :
    sess[id].done /\ LastStatus(sess[id]) = "success" =>
      LET s == sess[id]
          ev == s.events[Len(s.events)]
      IN /\ s.frontier = <<>>
         /\ s.listed = [k \in 1..s.found |-> k]
         /\ ev.scanned_dirs = s.found
         /\ ev.count = s.entries
         /\ scanKind = "search" =>
              Cardinality(ResultEvents(s)) = s.entries /\ ev.bytes = 0
         /\ scanKind = "size" =>
              ResultEvents(s) = {} /\ ev.bytes = s.volume

C29_Witness ==
  \E id \in DOMAIN sess :
    /\ scanKind = "size"
    /\ sess[id].done
    /\ LastStatus(sess[id]) = "success"
    /\ sess[id].listed = <<1, 2, 3>>
    /\ sess[id].entries = 2
    /\ sess[id].bytes = 1

\* C30 as stated: delete_path(p) calls stat on p and then issues exactly
\* one delete command: deletefile when stat reports a file, delete with
\* --rmdirs when stat reports a directory, and delete with --rmdirs when
\* stat fails.
C30_StatThenOneDelete ==
  outcome.stat # "none" =>
    /\ Len(issued) = 2
    /\ issued[1] = StatArgs(issued[1].path)
    /\ issued[2] = IF outcome.stat = "file"
                     THEN DeleteFileArgs(issued[1].path)
                     ELSE DeleteDirArgs(issued[1].path)

\* C35 as stated: once the status of a job in the table is success,
\* failed, cancelled or interrupted, no step of the worker, of cancel(), of
\* a submit or of start() changes it (the end of the process apart).
C35_TerminalStatusIsFinal ==
  [][Restart \/ \A j \in DOMAIN jobs :
                  jobs[j].status \in Terminal /\ j \in DOMAIN jobs'
                    => jobs'[j].status = jobs[j].status]_vars

\* the positions at which the worker coroutine is suspended: queue.get(),
\* a driver call in a thread, the admission sleep
Suspended ==
  {"idle", "del_call", "direct", "fb_estimate", "fb_admit", "fb_copy",
   "verify", "srcdel"}

\* the stored copy of a job equals the job of the table in status,
\* timestamps and results
Mirrored(j) ==
  /\ j \in DOMAIN db
  /\ db[j].status = jobs[j].status
  /\ db[j].started_at = jobs[j].started_at
  /\ db[j].completed_at = jobs[j].completed_at
  /\ db[j].results = jobs[j].results

\* C40 as stated: whenever the worker is suspended and no submit or cancel
\* call is under way, the store holds every job of the table with the same
\* status, timestamps and results.
C40_StoreMirrorsTable ==
  wpc \in Suspended /\ canPc = "idle" => \A j \in DOMAIN jobs : Mirrored(j)

\* the jobs a table or the store holds as running
RunningIn(table) == {j \in DOMAIN table : table[j].status = "running"}

\* C38 as stated: at most one job has status running at any time, in the
\* in-memory table and in the store, however many jobs are queued.
C38_AtMostOneRunning ==
  /\ Cardinality(RunningIn(jobs)) <= 1
  /\ Cardinality(RunningIn(db)) <= 1

\* C39: a copy job never invokes delete_path on any of its sources,
\* whether its items went through the direct copy, the fallback, a failed
\* verification, a cancel or a crash; delete_path is invoked only by delete
\* jobs and by move jobs on items whose verification passed.
C39_CopyNeverDeletes ==
  \A e \in hist :
    e[3] \in {"delete_call", "delete_ok", "delete_fail"} =>
      \/ db[e[1]].operation = "delete"
      \/ db[e[1]].operation = "move" /\ Happened(e[1], e[2], "verify_ok")

C39_Witness ==
  \E j \in JobIds :
    /\ db[j].operation = "copy"
    /\ db[j].status = "failed"
    /\ Happened(j, 1, "direct_fail")
    /\ Happened(j, 1, "verify_fail")
    /\ Happened(j, 2, "verify_ok")
    /\ Len(db[j].results) = 2
    /\ \A i \in 1..2 : ~Happened(j, i, "delete_call")

\* C36 as stated: when start() has run in a new process, every job whose
\* persisted status is queued is on the engine's queue again.
C36_QueuedJobsRequeued ==
  [][Start =>
       \A j \in DOMAIN db' :
         db'[j].status = "queued" => \E k \in 1..Len(queue') : queue'[k] = j]_vars

\* C37 as stated: every job the worker dequeues eventually reaches a
\* terminal status when every driver call returns; the staging admission
\* wait of a fallback ends for every estimate.
C37_DequeuedJobTerminates ==
  \A j \in 1..MaxQueued :
    (cur = j) ~> (j \in DOMAIN jobs /\ jobs[j].status \in Terminal)

\* a listing of verify_strict failed: the driver exited non-zero, its output
\* was not JSON, or a listed root has no colon
ListingFailed(root, out) ==
  \/ out.rc # 0
  \/ ~out.json
  \/ (out.items # <<>> /\ ~root.colon)

\* C31 as stated: verify_strict always returns a VerifyResult and never
\* raises; when listing the source or the destination fails (driver error,
\* malformed output, a path without a colon) it returns passed = false with
\* a reason.
C31_VerifyNeverRaises ==
  vcall.called =>
    /\ verdict.kind = "returned"
    /\ (ListingFailed(vcall.source, vcall.src_out)
          \/ ListingFailed(vcall.destination, vcall.dst_out))
         => (~verdict.passed /\ verdict.reason # "")

\* run() has returned
RunReturned == rpc = "idle" /\ rresult # NoResult

\* C33: run() in capture mode makes at most max_retries + 1 attempts; every
\* attempt but the last ended with a non-zero exit code, a timeout being
\* exit code 124; run() returns the result of its last attempt, at once
\* when that attempt exits with zero and else after max_retries + 1 attempts.
C33_RetryOnlyAfterFailure ==
  /\ Len(rtried) <= rmax + 1
  /\ \A k \in 1..Len(rtried) :
       /\ k < Len(rtried) => rtried[k].returncode # 0
       /\ rtried[k].timed_out => rtried[k].returncode = 124
  /\ rpc = "loop" => \A k \in 1..Len(rtried) : rtried[k].returncode # 0
  /\ RunReturned =>
       /\ rtried # <<>>
       /\ rresult = rtried[Len(rtried)]
       /\ rresult.returncode = 0 \/ Len(rtried) = rmax + 1

\* run() returned after a timeout, a non-zero exit and a zero exit
C33_Witness ==
  /\ RunReturned
  /\ Len(rtried) = 3
  /\ rtried[1].timed_out
  /\ rtried[2].returncode = 3
  /\ rresult.returncode = 0

\* run_with_progress() has returned
StreamReturned == spc = "idle" /\ sresult # NoResult

\* C34: when run_with_progress() returns the child has ended; the result is
\* exit code 130 with "Cancelled by user" exactly when the loop saw the
\* cancel predicate true, 124 with the timeout text exactly when it saw the
\* deadline passed and no cancel, and else the exit code of the child; what
\* the loop saw was so.
C34_StreamResult ==
  /\ sobs = "cancelled" => spred /\ stop
  /\ sobs = "timed_out" => late
  /\ StreamReturned =>
       /\ proc.state = "exited"
       /\ (sresult.returncode = 130) = (sobs = "cancelled")
       /\ (sresult.stderr = "Cancelled by user") = (sobs = "cancelled")
       /\ (sresult.returncode = 124) = (sobs = "timed_out")
       /\ (sresult.stderr = "Timed out after") = (sobs = "timed_out")
       /\ sresult.timed_out = (sobs = "timed_out")
       /\ sobs = "none" => sresult.returncode = proc.rc

\* a call returned 130 although its child had ended by itself with zero
\* before the loop saw the predicate true, with the deadline passed as well
C34_Witness ==
  /\ StreamReturned
  /\ sobs = "cancelled"
  /\ proc.rc = 0
  /\ late
  /\ sresult.returncode = 130

\* the session is as it was but for cancel_requested and, where given, the
\* position of its task
SameBut(id, fields) ==
  \A f \in DOMAIN sess[id] :
    f \notin fields => sess'[id][f] = sess[id][f]

\* C32: stop() leaves the table empty, the janitor stopped and no task of a
\* session of the table alive, and changes nothing but cancel_requested on
\* a session (no event, no done flag); a session that is no longer in the
\* table has no living task and never changes again.
C32_StopTerminatesAll ==
  [][/\ ScanStop =>
          /\ sessions' = {}
          /\ ~cleanup'
          /\ \A id \in sessions : sess'[id].pc \notin {"new", "sleeping"}
          /\ \A id \in DOMAIN sess : SameBut(id, {"cancel_requested", "pc"})
     /\ \A id \in DOMAIN sess \ sessions :
          /\ sess[id].pc \notin {"new", "sleeping"}
          /\ SameBut(id, {"cancel_requested"})]_vars

\* stop() has killed the task of a session that had events and was not done
C32_Witness ==
  /\ sessions = {}
  /\ ~cleanup
  /\ \E id \in DOMAIN sess :
       /\ sess[id].pc = "killed"
       /\ sess[id].cancel_requested
       /\ sess[id].events # <<>>
       /\ ~sess[id].done

====
